---- MODULE Spec2Model ----
(***************************************************************************)
(* A model of MusicComposer (src/music.py): the note graph built by        *)
(* _create_note_graph, the mood-weighted random walk of generate_melody,   *)
(* note_to_midi_number and the MIDI notes added by                         *)
(* generate_melody_with_midi.                                              *)
(*                                                                         *)
(* Numbers.  Python floats are modelled as exact rationals [num, den] in   *)
(* lowest terms (0.7 is 7/10, 1.2 is 6/5), so products, sums and quotients *)
(* are the mathematical ones; the last-bit rounding of IEEE doubles is not *)
(* modelled.                                                               *)
(*                                                                         *)
(* Strings.  A note string such as "C4" is the sequence of its characters, *)
(* <<"C", "4">>, so that f"{note}{octave}", note[0], note[1] and int() are *)
(* modelled by what they do.                                               *)
(***************************************************************************)
EXTENDS Integers, Sequences, FiniteSets, TLC

\* Largest length argument a call is given (lengths run from -1 to MaxLen).
MaxLen == 3

---------------------------------------------------------------------------
\* Exact rational arithmetic standing for the float operations of the code.

RECURSIVE Gcd(_, _)
Gcd(a, b) == IF b = 0 THEN a ELSE Gcd(b, a % b)

Rat(n, d) ==
    LET g == Gcd(n, d) IN [num |-> n \div g, den |-> d \div g]

RatMul(x, y) == Rat(x.num * y.num, x.den * y.den)

RatAdd(x, y) == Rat(x.num * y.den + y.num * x.den, x.den * y.den)

RatDiv(x, y) == Rat(x.num * y.den, x.den * y.num)

RatPos(x) == x.num > 0

\* sum(edge_weights): left to right from 0.
RECURSIVE RatSum(_)
RatSum(ws) ==
    IF ws = <<>> THEN Rat(0, 1)
    ELSE RatAdd(RatSum(SubSeq(ws, 1, Len(ws) - 1)), ws[Len(ws)])

---------------------------------------------------------------------------
\* String formatting and parsing.

DigitChars == <<"0", "1", "2", "3", "4", "5", "6", "7", "8", "9">>

\* str(n) for n >= 0: the decimal digits of n.
RECURSIVE IntToStr(_)
IntToStr(n) ==
    IF n < 10 THEN <<DigitChars[n + 1]>>
    ELSE IntToStr(n \div 10) \o <<DigitChars[(n % 10) + 1]>>

\* f"{note}{octave}"
NoteStr(note, octave) == <<note>> \o IntToStr(octave)

\* int(c) of a one-character string holding a decimal digit.
CharToInt(c) == (CHOOSE k \in 1..10 : DigitChars[k] = c) - 1

---------------------------------------------------------------------------
\* MusicComposer.__init__

notes == <<"C", "D", "E", "F", "G", "A", "B">>

note_to_midi ==
    [C |-> 60, D |-> 62, E |-> 64, F |-> 65, G |-> 67, A |-> 69, B |-> 71]

octaves == <<4, 5>>

---------------------------------------------------------------------------
\* networkx.DiGraph as the code uses it: the nodes in insertion order and,
\* per node, its out-edges in insertion order, each with its weight.

EmptyGraph == [nodes |-> <<>>, adj |-> <<>>]

NodeSet(G) == {G.nodes[k] : k \in 1..Len(G.nodes)}

\* G.add_node(n): no effect when n is already a node.
AddNode(G, n) ==
    IF n \in NodeSet(G) THEN G
    ELSE [nodes |-> Append(G.nodes, n), adj |-> (n :> <<>>) @@ G.adj]

\* G.add_edge(u, v, weight=w): adds missing end nodes; an edge that exists
\* keeps its place and has its weight overwritten.
AddEdge(G, u, v, w) ==
    LET G1 == AddNode(AddNode(G, u), v)
        out == G1.adj[u]
        at == {k \in 1..Len(out) : out[k].to = v}
    IN  IF at = {}
        THEN [G1 EXCEPT !.adj[u] = Append(out, [to |-> v, weight |-> w])]
        ELSE [G1 EXCEPT !.adj[u] =
                 [k \in 1..Len(out) |->
                     IF k \in at THEN [to |-> v, weight |-> w] ELSE out[k]]]

\* list(G.neighbors(n))
Neighbors(G, n) == [k \in 1..Len(G.adj[n]) |-> G.adj[n][k].to]

\* G[u][v]['weight']
EdgeWeight(G, u, v) ==
    LET out == G.adj[u]
    IN  out[CHOOSE k \in 1..Len(out) : out[k].to = v].weight

---------------------------------------------------------------------------
\* MusicComposer._create_note_graph

\* Lines 25-27, from the oi-th octave and the ni-th note on (1-based).
RECURSIVE AddNodes(_, _, _)
AddNodes(G, oi, ni) ==
    IF oi > Len(octaves) THEN G
    ELSE IF ni > Len(notes) THEN AddNodes(G, oi + 1, 1)
    ELSE AddNodes(AddNode(G, NoteStr(notes[ni], octaves[oi])), oi, ni + 1)

\* Lines 31-35 for one (i, note) of enumerate(self.notes), i 0-based: the
\* edges to the next and the previous pitch class of the same octave.
\* (Variant: the step edges given the octave edges' weight 0.3.)
StepEdgesSwapped(G, octave, i) ==
    LET note == notes[i + 1]
        next_idx == (i + 1) % Len(notes)
        prev_idx == (i - 1) % Len(notes)
        G1 == AddEdge(G, NoteStr(note, octave),
                      NoteStr(notes[next_idx + 1], octave), Rat(3, 10))
    IN  AddEdge(G1, NoteStr(note, octave),
                NoteStr(notes[prev_idx + 1], octave), Rat(3, 10))

StepEdges(G, octave, i) ==
    LET note == notes[i + 1]
        next_idx == (i + 1) % Len(notes)
        prev_idx == (i - 1) % Len(notes)
        G1 == AddEdge(G, NoteStr(note, octave),
                      NoteStr(notes[next_idx + 1], octave), Rat(7, 10))
    IN  AddEdge(G1, NoteStr(note, octave),
                NoteStr(notes[prev_idx + 1], octave), Rat(7, 10))

\* Lines 37-39 for one note, from the k-th other_octave on (1-based).
\* (Variant: without the test other_octave != octave.)
RECURSIVE OctaveEdgesUnguarded(_, _, _, _)
OctaveEdgesUnguarded(G, note, octave, k) ==
    IF k > Len(octaves) THEN G
    ELSE OctaveEdgesUnguarded(
             AddEdge(G, NoteStr(note, octave), NoteStr(note, octaves[k]),
                     Rat(3, 10)),
             note, octave, k + 1)

RECURSIVE OctaveEdges(_, _, _, _)
OctaveEdges(G, note, octave, k) ==
    IF k > Len(octaves) THEN G
    ELSE IF octaves[k] # octave
    THEN OctaveEdges(
             AddEdge(G, NoteStr(note, octave), NoteStr(note, octaves[k]),
                     Rat(3, 10)),
             note, octave, k + 1)
    ELSE OctaveEdges(G, note, octave, k + 1)

\* Lines 29-39, from the oi-th octave (1-based) and index i (0-based) on.
RECURSIVE AddEdges(_, _, _)
AddEdges(G, oi, i) ==
    IF oi > Len(octaves) THEN G
    ELSE IF i >= Len(notes) THEN AddEdges(G, oi + 1, 0)
    ELSE LET G2 == OctaveEdges(StepEdges(G, octaves[oi], i),
                               notes[i + 1], octaves[oi], 1)
         \* (the test has TLC evaluate G2 before the next iteration)
         IN  IF Len(G2.nodes) = 0 THEN G2 ELSE AddEdges(G2, oi, i + 1)

create_note_graph == AddEdges(AddNodes(EmptyGraph, 1, 1), 1, 0)

\* MusicComposer.note_to_midi_number
\* (Variant: the octave ignored.)
note_to_midi_number_flat(note) ==
    LET note_name == note[1]
    IN  note_to_midi[note_name]

note_to_midi_number(note) ==
    LET note_name == note[1]
        octave == CharToInt(note[2])
    IN  note_to_midi[note_name] + (octave - 4) * 12

---------------------------------------------------------------------------
\* MusicComposer.generate_melody: the pieces of one loop iteration.

\* The list random.choice draws the start note from (lines 51-53).
StartNotes ==
    {NoteStr(notes[ni], octaves[oi]) : ni \in 1..Len(notes), oi \in 1..Len(octaves)}

mood_weights ==
    [happy     |-> [weight_mul |-> Rat(12, 10), duration_pref |-> Rat(1, 4)],
     sad       |-> [weight_mul |-> Rat(8, 10),  duration_pref |-> Rat(1, 1)],
     energetic |-> [weight_mul |-> Rat(15, 10), duration_pref |-> Rat(1, 4)],
     calm      |-> [weight_mul |-> Rat(6, 10),  duration_pref |-> Rat(1, 2)]]

\* The number of iterations of `for _ in range(length)`.
\* (Variant: range(length - 1).)
RangeShort(n) == IF n > 1 THEN n - 1 ELSE 0

Range(n) == IF n > 0 THEN n ELSE 0

\* Lines 68-70: each out-edge's weight times the mood's weight_mul.
\* (Variant: weight + weight_mul.)
EdgeWeightsAdded(G, cur, nbrs, m) ==
    [k \in 1..Len(nbrs) |->
        RatAdd(EdgeWeight(G, cur, nbrs[k]), mood_weights[m].weight_mul)]

EdgeWeights(G, cur, nbrs, m) ==
    [k \in 1..Len(nbrs) |->
        RatMul(EdgeWeight(G, cur, nbrs[k]), mood_weights[m].weight_mul)]

\* Lines 72-76: divide by the sum when it is positive, else uniform.
\* (Variant: always the uniform branch.)
NormalizeUniform(ews) ==
    [k \in 1..Len(ews) |-> Rat(1, Len(ews))]

Normalize(ews) ==
    LET total_weight == RatSum(ews)
    IN  IF RatPos(total_weight)
        THEN [k \in 1..Len(ews) |-> RatDiv(ews[k], total_weight)]
        ELSE [k \in 1..Len(ews) |-> Rat(1, Len(ews))]

\* Line 78: the values random.choices(population, weights=wts)[0] can take,
\* the elements of the population whose weight is positive.
\* (Variant: a draw among all notes, as for the start note.)
RandomChoicesAnyNote(population, wts) == StartNotes

RandomChoices(population, wts) ==
    {population[k] : k \in {j \in 1..Len(population) : RatPos(wts[j])}}

\* Line 79: two of the values of [0, 1) that random.random() can return.
RandomValues == {Rat(0, 1), Rat(1, 2)}

---------------------------------------------------------------------------
\* MusicComposer.generate_melody_with_midi: the notes added to the MIDIFile.

\* Lines 97-101, from the k-th melody element on, time_counter as it stands.
\* (Variant: time_counter never incremented.)
RECURSIVE AddNotesSameTime(_, _, _)
AddNotesSameTime(mel, k, time_counter) ==
    IF k > Len(mel) THEN <<>>
    ELSE <<[track |-> 0, channel |-> 0, pitch |-> note_to_midi_number(mel[k]),
            time |-> time_counter, duration |-> 1, volume |-> 100]>>
         \o AddNotesSameTime(mel, k + 1, time_counter)

RECURSIVE AddNotes(_, _, _)
AddNotes(mel, k, time_counter) ==
    IF k > Len(mel) THEN <<>>
    ELSE <<[track |-> 0, channel |-> 0, pitch |-> note_to_midi_number(mel[k]),
            time |-> time_counter, duration |-> 1, volume |-> 100]>>
         \o AddNotes(mel, k + 1, time_counter + 1)

---------------------------------------------------------------------------
\* The composer, one call at a time.

VARIABLES
    graph,         \* self.graph
    pc,            \* "idle", "loop", "exit", "midi", "returned", "raised"
    caller,        \* "direct": generate_melody was called; "midi": through
                   \* generate_melody_with_midi
    length, mood, tempo,       \* the call's arguments
    melody, weights,           \* generate_melody's lists
    current_note, iter,        \* its current note and its loop counter
    neighbors, edge_weights,   \* the iteration's locals
    result,        \* the pair returned, <<>> while there is none
    error,         \* the exception raised, "" while there is none
    midifile,      \* the MIDIFile: its tempo events and its notes
    called         \* whether an earlier call has completed

vars ==
    <<graph, pc, caller, length, mood, tempo, melody, weights, current_note,
      iter, neighbors, edge_weights, result, error, midifile, called>>

NoMidi == [tempos |-> <<>>, notes |-> <<>>]

Lengths == -1..MaxLen

\* The mood strings a call is given: the four keys and one that is no key.
MoodInputs == (DOMAIN mood_weights) \cup {"angry"}

\* The tempo slider's default value (line 181).
Tempos == {120}

NoFrame ==
    /\ caller = ""
    /\ length = 0
    /\ mood = ""
    /\ tempo = 0
    /\ melody = <<>>
    /\ weights = <<>>
    /\ current_note = <<>>
    /\ iter = 0
    /\ neighbors = <<>>
    /\ edge_weights = <<>>
    /\ result = <<>>
    /\ error = ""
    /\ midifile = NoMidi

Init ==
    /\ graph = create_note_graph
    /\ pc = "idle"
    /\ called = FALSE
    /\ NoFrame

\* Lines 49-60: the lists are created empty and the start note is drawn.
Enter(len, m) ==
    /\ length' = len
    /\ mood' = m
    /\ melody' = <<>>
    /\ weights' = <<>>
    /\ current_note' \in StartNotes
    /\ iter' = 0
    /\ pc' = "loop"
    /\ UNCHANGED <<graph, neighbors, edge_weights, result, error, midifile,
                   called>>

generate_melody ==
    /\ pc = "idle"
    /\ caller' = "direct"
    /\ tempo' = 0
    /\ \E len \in Lengths, m \in MoodInputs : Enter(len, m)

generate_melody_with_midi ==
    /\ pc = "idle"
    /\ caller' = "midi"
    /\ \E tp \in Tempos : tempo' = tp
    /\ \E len \in Lengths, m \in MoodInputs : Enter(len, m)

\* Lines 62-79, one iteration, but for what it does to the graph: the note
\* is appended first; a note without neighbours breaks the loop; an unknown
\* mood makes the lookup mood_weights[mood] raise KeyError.
LoopBody ==
    /\ pc = "loop"
    /\ iter < Range(length)
    /\ melody' = Append(melody, current_note)
    /\ neighbors' = Neighbors(graph, current_note)
    /\ IF neighbors' = <<>>
       THEN /\ pc' = "exit"
            /\ UNCHANGED <<weights, current_note, iter, edge_weights, error>>
       ELSE IF mood \notin DOMAIN mood_weights
       THEN /\ pc' = "raised"
            /\ error' = "KeyError"
            /\ UNCHANGED <<weights, current_note, iter, edge_weights>>
       ELSE /\ edge_weights' =
                Normalize(EdgeWeights(graph, current_note, neighbors', mood))
            /\ current_note' \in RandomChoices(neighbors', edge_weights')
            /\ \E r \in RandomValues : weights' = Append(weights, r)
            /\ iter' = iter + 1
            /\ pc' = "loop"
            /\ error' = error
    /\ UNCHANGED <<caller, length, mood, tempo, result, midifile, called>>

\* (Variant: an iteration that scales the current node's out-edges in place.)
LoopStepScalingGraph ==
    /\ LoopBody
    /\ graph' =
           IF neighbors' = <<>> \/ mood \notin DOMAIN mood_weights THEN graph
           ELSE [graph EXCEPT !.adj[current_note] =
                    [k \in 1..Len(@) |->
                        [to |-> @[k].to,
                         weight |-> RatMul(@[k].weight,
                                           mood_weights[mood].weight_mul)]]]

LoopStep ==
    /\ LoopBody
    /\ graph' = graph

\* Line 81, after the loop ran out or broke; a call through
\* generate_melody_with_midi goes on with the MIDI file.
Return ==
    /\ pc \in {"loop", "exit"}
    /\ pc = "loop" => iter >= Range(length)
    /\ result' = <<melody, weights>>
    /\ pc' = IF caller = "midi" THEN "midi" ELSE "returned"
    /\ UNCHANGED <<graph, caller, length, mood, tempo, melody, weights,
                   current_note, iter, neighbors, edge_weights, error,
                   midifile, called>>

\* Lines 86-108: the tempo event, one note per melody element, the return.
WriteMidi ==
    /\ pc = "midi"
    /\ midifile' = [tempos |-> <<[track |-> 0, time |-> 0, tempo |-> tempo]>>,
                    notes |-> AddNotes(result[1], 1, 0)]
    /\ pc' = "returned"
    /\ UNCHANGED <<graph, caller, length, mood, tempo, melody, weights,
                   current_note, iter, neighbors, edge_weights, result, error,
                   called>>

\* The caller has the result or the exception; the call's frame is gone.
Finish ==
    /\ pc \in {"returned", "raised"}
    /\ pc' = "idle"
    /\ called' = TRUE
    /\ caller' = ""
    /\ length' = 0
    /\ mood' = ""
    /\ tempo' = 0
    /\ melody' = <<>>
    /\ weights' = <<>>
    /\ current_note' = <<>>
    /\ iter' = 0
    /\ neighbors' = <<>>
    /\ edge_weights' = <<>>
    /\ result' = <<>>
    /\ error' = ""
    /\ midifile' = NoMidi
    /\ UNCHANGED graph

Next ==
    \/ generate_melody
    \/ generate_melody_with_midi
    \/ LoopStep
    \/ Return
    \/ WriteMidi
    \/ Finish

Spec == Init /\ [][Next]_vars

---------------------------------------------------------------------------
\* The composer with a graph in which one node has lost its out-edges, the
\* case `if not neighbors: break` is written for.

\* G.remove_edges_from(list(G.out_edges(n)))
RemoveOutEdges(G, n) == [G EXCEPT !.adj[n] = <<>>]

DeadEnds == {NoteStr("C", 4), NoteStr("B", 5)}

InitDeadEnd ==
    /\ graph \in {RemoveOutEdges(create_note_graph, n) : n \in DeadEnds}
    /\ pc = "idle"
    /\ called = FALSE
    /\ NoFrame

SpecDeadEnd == InitDeadEnd /\ [][Next]_vars

---------------------------------------------------------------------------
\* Vocabulary of the properties.

Last(s) == s[Len(s)]

ValidMood == mood \in DOMAIN mood_weights

NameIndex(c) == CHOOSE ni \in 1..Len(notes) : notes[ni] = c

BasePitch == <<60, 62, 64, 65, 67, 69, 71>>

\* The out-edges the construction contract gives node (notes[ni], octaves[oi]).
ExpectedOut(ni, oi) ==
    {[to |-> NoteStr(notes[(ni % 7) + 1], octaves[oi]), weight |-> Rat(7, 10)],
     [to |-> NoteStr(notes[((ni - 2) % 7) + 1], octaves[oi]),
      weight |-> Rat(7, 10)]}
    \cup {[to |-> NoteStr(notes[ni], octaves[oj]), weight |-> Rat(3, 10)] :
             oj \in {j \in 1..Len(octaves) : octaves[j] # octaves[oi]}}

OutEdges(G, n) == {G.adj[n][k] : k \in 1..Len(G.adj[n])}

\* Adjacent pitch classes (cyclically) of one octave, or one pitch class in
\* two octaves.
Related(a, b) ==
    \/ /\ a[2] = b[2]
       /\ (NameIndex(b[1]) - NameIndex(a[1])) % 7 \in {1, 6}
    \/ /\ a[1] = b[1]
       /\ a[2] # b[2]

\* The iteration that appended the last melody element went on to sample.
Sampled == melody # <<>> /\ Len(weights) = Len(melody)

\* A rational of [0, 1] rounded to three decimals, in thousandths.
Round3(x) == (2000 * x.num + x.den) \div (2 * x.den)

\* The distribution of a node's weights as the graph holds them.
Unmultiplied(G, n) ==
    LET nbrs == Neighbors(G, n)
        raw == [k \in 1..Len(nbrs) |-> EdgeWeight(G, n, nbrs[k])]
    IN  [k \in 1..Len(nbrs) |-> RatDiv(raw[k], RatSum(raw))]

---------------------------------------------------------------------------
\* The properties.

\* C1 (as claimed): a call with length <= 0 or an unknown mood ends by
\* raising InvalidArgumentError, having appended no note and returned no
\* (melody, intensities) pair.
C1_InvalidArgumentsRejected ==
    (pc \in {"midi", "returned", "raised"} /\ (length <= 0 \/ ~ValidMood))
        => /\ pc = "raised"
           /\ error = "InvalidArgumentError"
           /\ melody = <<>>
           /\ weights = <<>>
           /\ result = <<>>

\* C2: a call with length > 0 and a valid mood on the standard graph returns
\* a melody and an intensity list of exactly `length` elements each.
C2_BothHaveLength ==
    (result # <<>> /\ length > 0 /\ ValidMood)
        => /\ Len(result[1]) = length
           /\ Len(result[2]) = length

C2_Witness ==
    /\ pc = "returned"
    /\ mood = "calm"
    /\ length = 3
    /\ Len(result[1]) = 3
    /\ Len(result[2]) = 3

\* C3: whenever the composer is constructed and not inside a call, the
\* graph's nodes are the 14 notes, and the out-edges of every node
\* (name_i, octave) are exactly the edge of weight 0.7 to the next name, the
\* edge of weight 0.7 to the previous name (both cyclic, same octave) and one
\* edge of weight 0.3 to the same name in each other octave; no parallel
\* edges, no self-loops, no weight that is zero or negative.
C3_EdgesExact ==
    pc = "idle" =>
        /\ NodeSet(graph) = StartNotes
        /\ Len(graph.nodes) = Len(notes) * Len(octaves)
        /\ DOMAIN graph.adj = StartNotes
        /\ \A ni \in 1..Len(notes), oi \in 1..Len(octaves) :
              LET n == NoteStr(notes[ni], octaves[oi])
              IN  /\ OutEdges(graph, n) = ExpectedOut(ni, oi)
                  /\ Len(graph.adj[n]) = Cardinality(ExpectedOut(ni, oi))
                  /\ \A e \in OutEdges(graph, n) :
                        e.to # n /\ RatPos(e.weight)

C3_Witness ==
    /\ pc = "idle"
    /\ ~called
    /\ OutEdges(graph, <<"B", "5">>) =
           {[to |-> <<"C", "5">>, weight |-> [num |-> 7, den |-> 10]],
            [to |-> <<"A", "5">>, weight |-> [num |-> 7, den |-> 10]],
            [to |-> <<"B", "4">>, weight |-> [num |-> 3, den |-> 10]]}

\* C4: whenever the composer is constructed and not inside a call, every
\* node of the graph has at least 2 and at most 2 + (|octaves| - 1)
\* out-edges, so no node is a dead end.
C4_OutDegree ==
    pc = "idle" =>
        \A n \in NodeSet(graph) :
            /\ Len(graph.adj[n]) >= 2
            /\ Len(graph.adj[n]) <= 2 + (Len(octaves) - 1)
            /\ Neighbors(graph, n) # <<>>

C4_Witness ==
    /\ Len(graph.nodes) = 14
    /\ \A n \in NodeSet(graph) : Len(Neighbors(graph, n)) = 3

\* C5: whatever calls are made, the graph stays the graph built at
\* construction (nodes, edges, weights), and a call starts from empty lists
\* whether or not calls were made before it.
C5_GraphKeptCallsFresh ==
    /\ graph = create_note_graph
    /\ (pc = "loop" /\ iter = 0) => (melody = <<>> /\ weights = <<>>)

C5_Witness ==
    /\ called
    /\ pc = "returned"
    /\ Len(result[1]) >= 2
    /\ graph = create_note_graph

\* C6: with mood happy at C4 the neighbours are D4, B4, C5 in this order with
\* weights 0.7, 0.7, 0.3, the multiplier is 1.2, and the probabilities
\* sampled from are 7/17, 7/17, 3/17: 0.412, 0.412, 0.176 to three decimals,
\* with sum 1.
C6_HappyAtC4 ==
    (mood = "happy" /\ Sampled /\ Last(melody) = <<"C", "4">>)
        => /\ neighbors = << <<"D", "4">>, <<"B", "4">>, <<"C", "5">> >>
           /\ [k \in 1..3 |-> EdgeWeight(graph, <<"C", "4">>, neighbors[k])]
                  = <<[num |-> 7, den |-> 10], [num |-> 7, den |-> 10],
                      [num |-> 3, den |-> 10]>>
           /\ mood_weights[mood].weight_mul = [num |-> 6, den |-> 5]
           /\ edge_weights = <<[num |-> 7, den |-> 17], [num |-> 7, den |-> 17],
                               [num |-> 3, den |-> 17]>>
           /\ [k \in 1..3 |-> Round3(edge_weights[k])] = <<412, 412, 176>>
           /\ RatSum(edge_weights) = [num |-> 1, den |-> 1]

C6_Witness ==
    /\ mood = "happy"
    /\ melody = << <<"C", "4">> >>
    /\ Len(weights) = 1
    /\ current_note = <<"C", "5">>
    /\ Len(edge_weights) = 3

\* C7: note_to_midi_number gives every note of the graph its base pitch
\* (C 60, D 62, E 64, F 65, G 67, A 69, B 71) plus 12 per octave above 4, and
\* generate_melody_with_midi adds one MIDI note per melody element, in melody
\* order, at times 0, 1, 2, ..., each of duration 1.
C7_MidiNotes ==
    /\ pc = "idle"
          => \A ni \in 1..Len(notes), oi \in 1..Len(octaves) :
                note_to_midi_number(NoteStr(notes[ni], octaves[oi]))
                    = BasePitch[ni] + (octaves[oi] - 4) * 12
    /\ (pc = "returned" /\ caller = "midi")
          => /\ Len(midifile.notes) = Len(result[1])
             /\ \A k \in 1..Len(result[1]) :
                   /\ midifile.notes[k].time = k - 1
                   /\ midifile.notes[k].duration = 1
                   /\ \E ni \in 1..Len(notes), oi \in 1..Len(octaves) :
                         /\ result[1][k] = NoteStr(notes[ni], octaves[oi])
                         /\ midifile.notes[k].pitch
                                = BasePitch[ni] + (octaves[oi] - 4) * 12

C7_Witness ==
    /\ pc = "returned"
    /\ caller = "midi"
    /\ Len(midifile.notes) = 3
    /\ result[1][3] = <<"B", "5">>
    /\ midifile.notes[3].pitch = 83
    /\ midifile.notes[3].time = 2

\* C8: the first note of a melody is a node of the graph, and every later
\* note is an out-neighbour of the note before it: an adjacent pitch class
\* of the same octave or the same pitch class in another octave, never the
\* same note again.
C8_WalkFollowsEdges ==
    /\ \A k \in 1..Len(melody) :
          /\ melody[k] \in NodeSet(graph)
          /\ k > 1 => /\ \E e \in OutEdges(graph, melody[k - 1]) :
                            e.to = melody[k]
                      /\ Related(melody[k - 1], melody[k])
                      /\ melody[k] # melody[k - 1]
    /\ result # <<>> => result[1] = melody

C8_Witness ==
    /\ pc = "returned"
    /\ result[1] = << <<"B", "4">>, <<"C", "4">>, <<"C", "5">> >>

C10_MoodHasNoEffect ==
    /\ pc = "idle"
          => \A n \in NodeSet(graph), m1 \in DOMAIN mood_weights :
                LET nbrs == Neighbors(graph, n)
                    ews == EdgeWeights(graph, n, nbrs, m1)
                IN  /\ RatPos(RatSum(ews))
                    /\ Normalize(ews) = Unmultiplied(graph, n)
                    /\ \A m2 \in DOMAIN mood_weights :
                          Normalize(ews)
                              = Normalize(EdgeWeights(graph, n, nbrs, m2))
    /\ (pc = "loop" /\ Sampled /\ ValidMood)
          => edge_weights = Unmultiplied(graph, Last(melody))

C10_Witness ==
    /\ mood = "calm"
    /\ Len(melody) = 2
    /\ Len(weights) = 2
    /\ Last(melody) = <<"E", "5">>
    /\ edge_weights = <<[num |-> 7, den |-> 17], [num |-> 7, den |-> 17],
                        [num |-> 3, den |-> 17]>>

====
